---- MODULE Spec2Model ----
(***************************************************************************)
(* unifind (src/main.go, the second, later copy of the program at lines    *)
(* 170-383): searching the Unicode NamesList for characters.               *)
(*                                                                         *)
(* Strings are sequences of one-character strings, so that the Go string   *)
(* functions the program uses (HasPrefix, Split, Fields, ToLower,          *)
(* Contains, ParseInt) are computed rather than assumed.                   *)
(***************************************************************************)
EXTENDS Integers, Sequences, FiniteSets, TLC

(***************************************************************************)
(* Bounds of the model.                                                    *)
(***************************************************************************)
\* the longest document made of any of the lines
MaxLines == 4
\* the longest document made of code-point and continuation lines only (a
\* record can outgrow the first backing array of the description slice)
MaxDeepLines == 7

(***************************************************************************)
(* Go's strings package, on sequences of characters.                       *)
(***************************************************************************)
TAB == "\t"

UpperLetters == <<"A","B","C","D","E","F","G","H","I","J","K","L","M",
                  "N","O","P","Q","R","S","T","U","V","W","X","Y","Z">>
LowerLetters == <<"a","b","c","d","e","f","g","h","i","j","k","l","m",
                  "n","o","p","q","r","s","t","u","v","w","x","y","z">>
Digits == <<"0","1","2","3","4","5","6","7","8","9">>

IndexIn(c, seq) ==
  IF \E i \in 1..Len(seq) : seq[i] = c
    THEN CHOOSE i \in 1..Len(seq) : seq[i] = c
    ELSE 0

LowerChar(c) == LET k == IndexIn(c, UpperLetters)
                IN  IF k > 0 THEN LowerLetters[k] ELSE c

\* strings.ToLower
ToLower(s) == [i \in 1..Len(s) |-> LowerChar(s[i])]

\* strings.HasPrefix
HasPrefix(s, prefix) ==
  /\ Len(s) >= Len(prefix)
  /\ SubSeq(s, 1, Len(prefix)) = prefix

\* strings.Contains
Contains(s, substr) ==
  \E i \in 0..(Len(s) - Len(substr)) : SubSeq(s, i + 1, i + Len(substr)) = substr

\* s[n:]
SliceFrom(s, n) == SubSeq(s, n + 1, Len(s))

\* strings.Split(s, sep) for a one-character separator: always at least one
\* field, empty fields kept
RECURSIVE SplitAcc(_, _, _, _)
SplitAcc(s, sep, cur, acc) ==
  IF s = <<>> THEN Append(acc, cur)
  ELSE IF Head(s) = sep THEN SplitAcc(Tail(s), sep, <<>>, Append(acc, cur))
  ELSE SplitAcc(Tail(s), sep, Append(cur, Head(s)), acc)

Split(s, sep) == SplitAcc(s, sep, <<>>, <<>>)

IsSpace(c) == c \in {" ", "\t", "\n", "\r", "\f"}

\* strings.Fields: the maximal runs of non-space characters
RECURSIVE FieldsAcc(_, _, _)
FieldsAcc(s, cur, acc) ==
  IF s = <<>> THEN (IF cur = <<>> THEN acc ELSE Append(acc, cur))
  ELSE IF IsSpace(Head(s))
    THEN FieldsAcc(Tail(s), <<>>, IF cur = <<>> THEN acc ELSE Append(acc, cur))
  ELSE FieldsAcc(Tail(s), Append(cur, Head(s)), acc)

Fields(s) == FieldsAcc(s, <<>>, <<>>)

\* strings.Join
RECURSIVE Join(_, _)
Join(elems, sep) ==
  IF elems = <<>> THEN <<>>
  ELSE IF Len(elems) = 1 THEN elems[1]
  ELSE elems[1] \o sep \o Join(Tail(elems), sep)

\* the value of a digit in strconv's number syntax (99: not a digit)
DigitVal(c) ==
  LET d == IndexIn(c, Digits)
      l == IndexIn(c, LowerLetters)
      u == IndexIn(c, UpperLetters)
  IN  IF d > 0 THEN d - 1
      ELSE IF l > 0 THEN l + 9
      ELSE IF u > 0 THEN u + 9
      ELSE 99

\* the largest int32 (bitSize 32)
MaxInt32 == 2147483647

\* the value of a string of base-16 digits, or -1 once it exceeds MaxInt32
RECURSIVE HexValue(_, _)
HexValue(s, acc) ==
  IF s = <<>> THEN acc
  ELSE IF acc = -1 \/ acc > (MaxInt32 - DigitVal(Head(s))) \div 16 THEN -1
  ELSE HexValue(Tail(s), acc * 16 + DigitVal(Head(s)))

\* a variant of ParseInt16 that takes the empty text for 0
ParseInt16EmptyIsZero(s) ==
  LET syntaxOk == \A i \in 1..Len(s) : DigitVal(s[i]) < 16
      un       == IF syntaxOk THEN HexValue(s, 0) ELSE 0
  IN  [err |-> ~(syntaxOk /\ un # -1),
       val |-> IF syntaxOk /\ un # -1 THEN un ELSE 0]

\* strconv.ParseInt(s, 16, 32): an optional sign, then one or more base-16
\* digits, the value within int32 (-2^31 .. 2^31 - 1)
ParseInt16(s) ==
  LET neg  == s # <<>> /\ Head(s) = "-"
      body == IF s # <<>> /\ Head(s) \in {"+", "-"} THEN Tail(s) ELSE s
      syntaxOk == body # <<>> /\ \A i \in 1..Len(body) : DigitVal(body[i]) < 16
      un   == IF syntaxOk THEN HexValue(body, 0) ELSE 0
      \* body is exactly 2^31: all but its last digit make 2^27, the last is 0
      isMin == /\ syntaxOk
               /\ body[Len(body)] = "0"
               /\ HexValue(SubSeq(body, 1, Len(body) - 1), 0) = 134217728
      rangeOk == un # -1 \/ (neg /\ isMin)
  IN  [err |-> ~(syntaxOk /\ rangeOk),
       val |-> IF ~(syntaxOk /\ rangeOk) THEN 0
               ELSE IF un = -1 THEN 0 - MaxInt32 - 1
               ELSE IF neg THEN 0 - un ELSE un]

(***************************************************************************)
(* The state of one run of the program.                                    *)
(***************************************************************************)
VARIABLES
  pc,           \* where the run is: "start", "search", "scan", "returned",
                \* "exit", or "panic" (a Go run-time panic ended the process)
  osArgs,       \* os.Args
  flags,        \* run: the set of flag names that are set
  search,       \* searchNamesList: the query, lower-cased once it is called
  schr,         \* searchNamesList: code-point text of the open record
  ccat,         \* searchNamesList: Category captured for the open record
  cscat,        \* searchNamesList: Subcategory captured for the open record
  category,     \* searchNamesList: the running Category
  subcategory,  \* searchNamesList: the running Subcategory
  desc,         \* searchNamesList: the description slice (array, len, cap)
  heap,         \* the backing arrays of []string slices, by array number
  cp,           \* searchNamesList: the result list
  err,          \* the error returned to run ("" for nil)
  stderr,       \* what was written to os.Stderr, in order
  exitCode,     \* the exit status of the process (-1 while it runs)
  input,        \* history: the lines rdr.Scan() has delivered, in order
  cline,        \* history: the line number at which schr was set (0: never)
  cpLine,       \* history: for each element of cp, the cline of its record
  evals,        \* history: the calls of matcher, in order
  eof,          \* history: rdr.Scan() has returned false
  netBody,      \* the body the server sends for the URL
  cacheDir,     \* the cache directory exists
  cacheFile,    \* the file at cachePath: whether it exists, and its bytes
  fpc,          \* fetchUnicodeURL, per call: where the call is
  fbody,        \* per call: what is left to read of resp.Body
  foff,         \* per call: the offset of the file handle f
  ferr,         \* per call: the error returned ("" for nil)
  fmiss,        \* history, per call: os.Open found no file
  fnet          \* history, per call: the number of http.Get requests made

vars == <<pc, osArgs, flags, search, schr, ccat, cscat, category, subcategory,
          desc, heap, cp, err, stderr, exitCode, input, cline, cpLine, evals,
          eof, netBody, cacheDir, cacheFile, fpc, fbody, foff, ferr, fmiss,
          fnet>>

\* the variables of the run
rvars == <<pc, osArgs, flags, search, schr, ccat, cscat, category, subcategory,
           desc, heap, cp, err, stderr, exitCode, input, cline, cpLine, evals,
           eof>>

\* the variables of the file system, the network and the calls of
\* fetchUnicodeURL
fvars == <<netBody, cacheDir, cacheFile, fpc, fbody, foff, ferr, fmiss, fnet>>

\* make([]string, 0, 5): the capacity of the first backing array of desc
DescCap == 5

\* the zero value of Category
ZeroCategory == [Name |-> <<>>, Start |-> <<>>, End |-> <<>>, Description |-> <<>>]

\* the zero value of a []string
NilSlice == [arr |-> 0, len |-> 0, cap |-> 0]

(***************************************************************************)
(* Slices of strings: a slice is a window (array, len, cap) on a backing   *)
(* array; two slices on one array see each other's writes.                 *)
(***************************************************************************)
\* the elements a slice shows, given the heap
Items(h, sl) == IF sl.len = 0 THEN <<>> ELSE SubSeq(h[sl.arr], 1, sl.len)

\* make([]string, 0, n)
MakeSlice(h, n) ==
  [heap |-> Append(h, [i \in 1..n |-> <<>>]),
   sl   |-> [arr |-> Len(h) + 1, len |-> 0, cap |-> n]]

\* desc[0:0]: the same backing array, length zero
Reslice0(sl) == [sl EXCEPT !.len = 0]

\* append(sl, x): in place while there is capacity, otherwise into a new
\* array of twice the capacity (runtime.growslice below 256 elements)
AppendSlice(h, sl, x) ==
  IF sl.len < sl.cap
    THEN [heap |-> [h EXCEPT ![sl.arr][sl.len + 1] = x],
          sl   |-> [sl EXCEPT !.len = sl.len + 1]]
    ELSE [heap |-> Append(h, Items(h, sl) \o <<x>>
                             \o [i \in 1..(2 * sl.cap - sl.len - 1) |-> <<>>]),
          sl   |-> [arr |-> Len(h) + 1, len |-> sl.len + 1, cap |-> 2 * sl.cap]]

(***************************************************************************)
(* matchAll and the matcher closure of searchNamesList.                    *)
(***************************************************************************)
\* a variant of matchAll that accepts when any one term is found
matchAny(target, query) ==
  \/ Fields(query) = <<>>
  \/ \E p \in 1..Len(Fields(query)) :
       \E t \in 1..Len(target) : Contains(target[t], Fields(query)[p])

\* a variant of matchAll that needs at least one term
matchAllSome(target, query) ==
  /\ Fields(query) # <<>>
  /\ \A p \in 1..Len(Fields(query)) :
       \E t \in 1..Len(target) : Contains(target[t], Fields(query)[p])

\* matchAll: every whitespace-separated part of query is contained in some
\* element of target
matchAll(target, query) ==
  LET q == Fields(query)
  IN  \A p \in 1..Len(q) : \E t \in 1..Len(target) : Contains(target[t], q[p])

\* the condition of matcher (line 289), on the elements of desc
MatcherAccepts(items) ==
  \/ matchAll(items, search)
  \/ matchAll(<<ToLower(ccat.Name), ToLower(cscat)>>, search)

LogEntry(kind, text, n) == [kind |-> kind, text |-> text, n |-> n]

\* a variant of Matcher that puts the accepted record first in cp
MatcherPrepends(sl) ==
  LET items == Items(heap, sl)
      i     == ParseInt16(schr)
  IN  IF ~MatcherAccepts(items)
        THEN [cp |-> cp, cpLine |-> cpLine, stderr |-> stderr, panic |-> FALSE]
      ELSE IF i.err
        THEN [cp |-> cp, cpLine |-> cpLine,
              stderr |-> Append(stderr, LogEntry("invalid rune", schr, 0)),
              panic |-> FALSE]
      ELSE IF sl.len = 0
        THEN [cp |-> cp, cpLine |-> cpLine, stderr |-> stderr, panic |-> TRUE]
      ELSE [cp |-> <<[Chr |-> i.val, Desc |-> items[1], FullDesc |-> sl,
                      Category |-> ccat, Subcategory |-> cscat]>> \o cp,
            cpLine |-> <<cline>> \o cpLine,
            stderr |-> stderr, panic |-> FALSE]

\* a variant of Matcher that reports a code point that does not parse and
\* goes on to append the record (as searchIndex does, lines 256-260)
MatcherKeepsInvalid(sl) ==
  LET items == Items(heap, sl)
      i     == ParseInt16(schr)
  IN  IF ~MatcherAccepts(items)
        THEN [cp |-> cp, cpLine |-> cpLine, stderr |-> stderr, panic |-> FALSE]
      ELSE IF sl.len = 0
        THEN [cp |-> cp, cpLine |-> cpLine, stderr |-> stderr, panic |-> TRUE]
      ELSE [cp |-> Append(cp, [Chr |-> i.val, Desc |-> items[1], FullDesc |-> sl,
                                Category |-> ccat, Subcategory |-> cscat]),
            cpLine |-> Append(cpLine, cline),
            stderr |-> IF i.err
                         THEN Append(stderr, LogEntry("invalid rune", schr, 0))
                         ELSE stderr,
            panic |-> FALSE]

\* a variant of Matcher that reads the parser's current category and
\* subcategory instead of the record's ccat and cscat
MatcherUsesCurrent(sl) ==
  LET items == Items(heap, sl)
      i     == ParseInt16(schr)
  IN  IF ~(\/ matchAll(items, search)
           \/ matchAll(<<ToLower(category.Name), ToLower(subcategory)>>, search))
        THEN [cp |-> cp, cpLine |-> cpLine, stderr |-> stderr, panic |-> FALSE]
      ELSE IF i.err
        THEN [cp |-> cp, cpLine |-> cpLine,
              stderr |-> Append(stderr, LogEntry("invalid rune", schr, 0)),
              panic |-> FALSE]
      ELSE IF sl.len = 0
        THEN [cp |-> cp, cpLine |-> cpLine, stderr |-> stderr, panic |-> TRUE]
      ELSE [cp |-> Append(cp, [Chr |-> i.val, Desc |-> items[1], FullDesc |-> sl,
                                Category |-> category,
                                Subcategory |-> subcategory]),
            cpLine |-> Append(cpLine, cline),
            stderr |-> stderr, panic |-> FALSE]

\* matcher(desc): what it leaves in cp, cpLine, stderr, and whether it
\* panics (desc[0] on an empty slice)
Matcher(sl) ==
  LET items == Items(heap, sl)
      i     == ParseInt16(schr)
  IN  IF ~MatcherAccepts(items)
        THEN [cp |-> cp, cpLine |-> cpLine, stderr |-> stderr, panic |-> FALSE]
      ELSE IF i.err
        THEN [cp |-> cp, cpLine |-> cpLine,
              stderr |-> Append(stderr, LogEntry("invalid rune", schr, 0)),
              panic |-> FALSE]
      ELSE IF sl.len = 0
        THEN [cp |-> cp, cpLine |-> cpLine, stderr |-> stderr, panic |-> TRUE]
      ELSE [cp |-> Append(cp, [Chr |-> i.val, Desc |-> items[1], FullDesc |-> sl,
                                Category |-> ccat, Subcategory |-> cscat]),
            cpLine |-> Append(cpLine, cline),
            stderr |-> stderr, panic |-> FALSE]

\* history: one call of matcher, made while reading line `at` (or at the end
\* of input, at = number of lines + 1)
EvalEntry(sl, at) ==
  [line |-> cline, at |-> at, items |-> Items(heap, sl), schr |-> schr,
   ccat |-> ccat, cscat |-> cscat]


(***************************************************************************)
(* The documents and command lines the model reads.                        *)
(***************************************************************************)
\* a category header: start 0, name Ab, end F
LnCategory == <<"@","@","\t","0","\t","A","b","\t","F">>
\* a subcategory marker: C
LnSubcategory == <<"@","\t","\t","C">>
\* a code-point line
LnCodeA == <<"4","1","\t","A","B">>
\* another code-point line
LnCodeB == <<"4","2","\t","B","c">>
\* a continuation line
LnCont == <<"\t","c">>
\* a code-point line whose code point is not hexadecimal
LnBadHex == <<"4","G","\t","b">>
\* a line of one field
LnOneField == <<"4","3">>
\* a comment line
LnComment == <<";","x">>
\* a category header of two fields
LnShortHeader == <<"@","@","\t","0">>
\* a category description line
LnCategoryDescription == <<"@","+","\t","\t","z">>

\* the lines a document of Spec is made of
Lines == {LnCategory, LnShortHeader, LnSubcategory, LnCategoryDescription,
          LnCodeA, LnCodeB, LnCont, LnBadHex, LnOneField, LnComment}

\* the lines a document of more than MaxLines lines is made of
DeepLines == {LnCodeA, LnCodeB, LnCont}

ProgName == <<"u">>

\* the command lines: no argument, an empty query, a flag and two terms
Argvs == {<<ProgName>>,
          <<ProgName, <<>>>>,
          <<ProgName, <<"-","v">>, <<"b">>, <<"C">>>>}

(***************************************************************************)
(* fetchUnicodeURL as searchNamesList sees it: one of its returns.         *)
(***************************************************************************)
FetchErrors == {"could not find user cache dir", "could not open file",
                "could not make cache path", "could not fetch",
                "could not create cache path", "could not download"}

(***************************************************************************)
(* The classes of line of the scan loop of searchNamesList, in the order   *)
(* the loop tests them.                                                    *)
(***************************************************************************)
LineClass(line) ==
  IF HasPrefix(line, <<"@", TAB, TAB>>) THEN "subcategory"
  ELSE IF HasPrefix(line, <<"@", "@", TAB>>) THEN "category"
  ELSE IF HasPrefix(line, <<"@", "+", TAB, TAB>>) THEN "categoryDescription"
  ELSE IF \/ HasPrefix(line, <<";">>)
          \/ HasPrefix(line, <<"@">>)
          \/ HasPrefix(line, <<TAB, TAB>>) THEN "skip"
  ELSE IF Len(Split(line, TAB)) # 2 THEN "malformed"
  ELSE "data"


(***************************************************************************)
(* The run: main, run and searchNamesList.                                 *)
(***************************************************************************)
\* the calls of fetchUnicodeURL the model follows step by step
Procs == {1, 2}

\* the file system and network before any call, with no cache file
FetchQuiet ==
  /\ netBody = <<>>
  /\ cacheDir = FALSE
  /\ cacheFile = [exists |-> FALSE, data |-> <<>>]
  /\ fpc = [p \in Procs |-> "idle"]
  /\ fbody = [p \in Procs |-> <<>>]
  /\ foff = [p \in Procs |-> 0]
  /\ ferr = [p \in Procs |-> ""]
  /\ fmiss = [p \in Procs |-> FALSE]
  /\ fnet = [p \in Procs |-> 0]

\* the run before main, given the command lines A
InitRun(A) ==
  /\ pc = "start"
  /\ osArgs \in A
  /\ flags = {}
  /\ search = <<>>
  /\ schr = <<>>
  /\ ccat = ZeroCategory
  /\ cscat = <<>>
  /\ category = ZeroCategory
  /\ subcategory = <<>>
  /\ desc = NilSlice
  /\ heap = <<>>
  /\ cp = <<>>
  /\ err = ""
  /\ stderr = <<>>
  /\ exitCode = -1
  /\ input = <<>>
  /\ cline = 0
  /\ cpLine = <<>>
  /\ evals = <<>>
  /\ eof = FALSE

Init == InitRun(Argvs) /\ FetchQuiet

\* strings.TrimLeft(s, "-")
RECURSIVE TrimLeftDash(_)
TrimLeftDash(s) ==
  IF s # <<>> /\ Head(s) = "-" THEN TrimLeftDash(Tail(s)) ELSE s

\* run, lines 344-352: the arguments that are not flags, in order
RECURSIVE NonFlagArgs(_)
NonFlagArgs(a) ==
  IF a = <<>> THEN <<>>
  ELSE IF HasPrefix(Head(a), <<"-">>) THEN NonFlagArgs(Tail(a))
  ELSE <<Head(a)>> \o NonFlagArgs(Tail(a))

\* run, lines 344-352: the flags that are set
FlagsOf(a) ==
  {TrimLeftDash(a[i]) : i \in {j \in 1..Len(a) : HasPrefix(a[j], <<"-">>)}}

searchUnchanged ==
  UNCHANGED <<schr, ccat, cscat, category, subcategory, desc, heap, cp,
              input, cline, cpLine, evals, eof>>

\* run up to its call of searchNamesList (lines 343-356)
RunStart ==
  /\ pc = "start"
  /\ flags' = FlagsOf(osArgs)
  /\ IF Len(NonFlagArgs(osArgs)) < 2
       THEN /\ pc' = "runReturned"
            /\ err' = "provide a search term"
            /\ search' = search
       ELSE /\ pc' = "search"
            /\ err' = err
            /\ search' = Join(Tail(NonFlagArgs(osArgs)), <<" ">>)
  /\ searchUnchanged
  /\ UNCHANGED <<osArgs, stderr, exitCode>>
  /\ UNCHANGED fvars

\* a variant of SearchFetchFails that keeps the error and goes on to the loop
SearchFetchFailsGoesOn ==
  /\ pc = "search"
  /\ \E e \in FetchErrors : err' = e
  /\ search' = ToLower(search)
  /\ LET m == MakeSlice(heap, DescCap)
     IN  /\ heap' = m.heap
         /\ desc' = m.sl
  /\ pc' = "scan"
  /\ UNCHANGED <<osArgs, flags, schr, ccat, cscat, category, subcategory, cp,
                 stderr, exitCode, input, cline, cpLine, evals, eof>>
  /\ UNCHANGED fvars

\* searchNamesList up to its loop (lines 283-306), fetchUnicodeURL failing
SearchFetchFails ==
  /\ pc = "search"
  /\ \E e \in FetchErrors :
       /\ err' = e
       /\ cp' = <<>>
  /\ search' = ToLower(search)
  /\ pc' = "searchReturned"
  /\ UNCHANGED <<osArgs, flags, schr, ccat, cscat, category, subcategory, desc,
                 heap, stderr, exitCode, input, cline, cpLine, evals, eof>>
  /\ UNCHANGED fvars

\* searchNamesList up to its loop (lines 283-306), fetchUnicodeURL returning
\* a stream
SearchFetchOk ==
  /\ pc = "search"
  /\ search' = ToLower(search)
  /\ LET m == MakeSlice(heap, DescCap)
     IN  /\ heap' = m.heap
         /\ desc' = m.sl
  /\ pc' = "scan"
  /\ UNCHANGED <<osArgs, flags, schr, ccat, cscat, category, subcategory, cp,
                 err, stderr, exitCode, input, cline, cpLine, evals, eof>>
  /\ UNCHANGED fvars

\* a run-time panic: the process prints the panic and exits with status 2
Panic(msg) ==
  /\ pc' = "panic"
  /\ exitCode' = 2
  /\ stderr' = Append(stderr, LogEntry("panic", msg, 0))

\* lines 309-312: a subcategory marker
ScanSubcategory(L, N) ==
  /\ pc = "scan"
  /\ Len(input) < N
  /\ \E line \in L :
       /\ LineClass(line) = "subcategory"
       /\ subcategory' = SliceFrom(line, 3)
       /\ input' = Append(input, line)
  /\ UNCHANGED <<pc, osArgs, flags, search, schr, ccat, cscat, category, desc,
                 heap, cp, err, stderr, exitCode, cline, cpLine, evals, eof>>
  /\ UNCHANGED fvars

\* lines 313-317: a category header
ScanCategory(L, N) ==
  /\ pc = "scan"
  /\ Len(input) < N
  /\ \E line \in L :
       /\ LineClass(line) = "category"
       /\ input' = Append(input, line)
       /\ LET parts == Split(line, TAB)
          IN  IF Len(parts) < 4
                THEN /\ Panic(<<"index out of range">>)
                     /\ category' = category
                ELSE /\ category' = [Name |-> parts[3], Start |-> parts[2],
                                     End |-> parts[4], Description |-> <<>>]
                     /\ UNCHANGED <<pc, exitCode, stderr>>
  /\ UNCHANGED <<osArgs, flags, search, schr, ccat, cscat, subcategory, desc,
                 heap, cp, err, cline, cpLine, evals, eof>>
  /\ UNCHANGED fvars

\* lines 318-321: a category description line
ScanCategoryDescription(L, N) ==
  /\ pc = "scan"
  /\ Len(input) < N
  /\ \E line \in L :
       /\ LineClass(line) = "categoryDescription"
       /\ category' = [category EXCEPT !.Description = SliceFrom(line, 4)]
       /\ input' = Append(input, line)
  /\ UNCHANGED <<pc, osArgs, flags, search, schr, ccat, cscat, subcategory,
                 desc, heap, cp, err, stderr, exitCode, cline, cpLine, evals, eof>>
  /\ UNCHANGED fvars

\* lines 322-324: a comment, another @ line, or a line of two leading tabs
ScanSkip(L, N) ==
  /\ pc = "scan"
  /\ Len(input) < N
  /\ \E line \in L :
       /\ LineClass(line) = "skip"
       /\ input' = Append(input, line)
  /\ UNCHANGED <<pc, osArgs, flags, search, schr, ccat, cscat, category,
                 subcategory, desc, heap, cp, err, stderr, exitCode, cline,
                 cpLine, evals, eof>>
  /\ UNCHANGED fvars

\* a variant of ScanMalformed that reports the line and returns
ScanMalformedReturns(L, N) ==
  /\ pc = "scan"
  /\ Len(input) < N
  /\ \E line \in L :
       /\ LineClass(line) = "malformed"
       /\ stderr' = Append(stderr, LogEntry("invalid format", line,
                                            Len(Split(line, TAB))))
       /\ input' = Append(input, line)
  /\ pc' = "searchReturned"
  /\ UNCHANGED <<osArgs, flags, search, schr, ccat, cscat, category,
                 subcategory, desc, heap, cp, err, exitCode, cline, cpLine,
                 evals, eof>>
  /\ UNCHANGED fvars

\* a variant of ScanMalformed that takes the first field of the reported
\* line for the code point of a new record
ScanMalformedOpens(L, N) ==
  /\ pc = "scan"
  /\ Len(input) < N
  /\ \E line \in L :
       /\ LineClass(line) = "malformed"
       /\ stderr' = Append(stderr, LogEntry("invalid format", line,
                                            Len(Split(line, TAB))))
       /\ input' = Append(input, line)
       /\ schr' = Split(line, TAB)[1]
  /\ desc' = Reslice0(desc)
  /\ cline' = Len(input) + 1
  /\ UNCHANGED <<pc, osArgs, flags, search, ccat, cscat, category,
                 subcategory, heap, cp, err, exitCode, cpLine, evals, eof>>
  /\ UNCHANGED fvars

\* lines 325-329: a line that is not two tab-separated fields
ScanMalformed(L, N) ==
  /\ pc = "scan"
  /\ Len(input) < N
  /\ \E line \in L :
       /\ LineClass(line) = "malformed"
       /\ stderr' = Append(stderr, LogEntry("invalid format", line,
                                            Len(Split(line, TAB))))
       /\ input' = Append(input, line)
  /\ UNCHANGED <<pc, osArgs, flags, search, schr, ccat, cscat, category,
                 subcategory, desc, heap, cp, err, exitCode, cline, cpLine,
                 evals, eof>>
  /\ UNCHANGED fvars

\* a variant of OpensRecord that tests the text field instead
OpensRecordOnText(parts) == parts[2] # <<>>

\* does a data line open a record (line 330)
OpensRecord(parts) == parts[1] # <<>>

\* lines 330-337, a line with a code point: the open record is evaluated,
\* then the new one is opened and its first description line appended
ScanCodePoint(L, N) ==
  /\ pc = "scan"
  /\ Len(input) < N
  /\ \E line \in L :
       /\ LineClass(line) = "data"
       /\ OpensRecord(Split(line, TAB))
       /\ input' = Append(input, line)
       /\ evals' = Append(evals, EvalEntry(desc, Len(input) + 1))
       /\ LET parts == Split(line, TAB)
              m     == Matcher(desc)
              a     == AppendSlice(heap, Reslice0(desc), ToLower(parts[2]))
          IN  IF m.panic
                THEN /\ Panic(<<"index out of range">>)
                     /\ UNCHANGED <<schr, ccat, cscat, desc, heap, cp, cpLine,
                                    cline>>
                ELSE /\ cp' = m.cp
                     /\ cpLine' = m.cpLine
                     /\ stderr' = m.stderr
                     /\ schr' = parts[1]
                     /\ ccat' = category
                     /\ cscat' = subcategory
                     /\ heap' = a.heap
                     /\ desc' = a.sl
                     /\ cline' = Len(input) + 1
                     /\ UNCHANGED <<pc, exitCode>>
  /\ UNCHANGED <<osArgs, flags, search, category, subcategory, err, eof>>
  /\ UNCHANGED fvars

\* lines 330 and 337, a line with an empty code-point field: its text is
\* appended to the description list
ScanContinuation(L, N) ==
  /\ pc = "scan"
  /\ Len(input) < N
  /\ \E line \in L :
       /\ LineClass(line) = "data"
       /\ ~OpensRecord(Split(line, TAB))
       /\ input' = Append(input, line)
       /\ LET a == AppendSlice(heap, desc, ToLower(Split(line, TAB)[2]))
          IN  /\ heap' = a.heap
              /\ desc' = a.sl
  /\ UNCHANGED <<pc, osArgs, flags, search, schr, ccat, cscat, category,
                 subcategory, cp, err, stderr, exitCode, cline, cpLine, evals,
                 eof>>
  /\ UNCHANGED fvars

\* a variant of ScanEnd that returns without the call of matcher of line 339
ScanEndNoEval ==
  /\ pc = "scan"
  /\ eof' = TRUE
  /\ pc' = "searchReturned"
  /\ UNCHANGED <<osArgs, flags, search, schr, ccat, cscat, category,
                 subcategory, desc, heap, cp, err, stderr, exitCode, input,
                 cline, cpLine, evals>>
  /\ UNCHANGED fvars

\* lines 339-340: the end of input; the open record is evaluated and the
\* result returned
ScanEnd ==
  /\ pc = "scan"
  /\ eof' = TRUE
  /\ evals' = Append(evals, EvalEntry(desc, Len(input) + 1))
  /\ LET m == Matcher(desc)
     IN  IF m.panic
           THEN /\ Panic(<<"index out of range">>)
                /\ UNCHANGED <<cp, cpLine>>
           ELSE /\ cp' = m.cp
                /\ cpLine' = m.cpLine
                /\ stderr' = m.stderr
                /\ pc' = "searchReturned"
                /\ UNCHANGED exitCode
  /\ UNCHANGED <<osArgs, flags, search, schr, ccat, cscat, category,
                 subcategory, desc, heap, err, input, cline>>
  /\ UNCHANGED fvars

\* run after searchNamesList returned (lines 357-374)
RunFinish ==
  /\ pc = "searchReturned"
  /\ pc' = "runReturned"
  /\ err' = IF err # "" THEN err
            ELSE IF Len(cp) = 0 THEN "Not found"
            ELSE ""
  /\ searchUnchanged
  /\ UNCHANGED <<osArgs, flags, search, stderr, exitCode>>
  /\ UNCHANGED fvars

\* main after run returned (lines 377-382)
MainExit ==
  /\ pc = "runReturned"
  /\ pc' = "exit"
  /\ IF err # ""
       THEN /\ stderr' = Append(stderr, LogEntry("error", <<err>>, 0))
            /\ exitCode' = 1
       ELSE /\ stderr' = stderr
            /\ exitCode' = 0
  /\ searchUnchanged
  /\ UNCHANGED <<osArgs, flags, search, err>>
  /\ UNCHANGED fvars

\* more than MaxLines lines were read, code-point and continuation lines only
DeepDocument ==
  /\ Len(input) >= MaxLines
  /\ \A i \in 1..Len(input) : input[i] \in DeepLines

\* lines 330-337 in a long document
ScanDeepCodePoint == DeepDocument /\ ScanCodePoint(DeepLines, MaxDeepLines)

\* lines 330 and 337 in a long document
ScanDeepContinuation == DeepDocument /\ ScanContinuation(DeepLines, MaxDeepLines)

Next ==
  \/ RunStart
  \/ SearchFetchFails
  \/ SearchFetchOk
  \/ ScanSubcategory(Lines, MaxLines)
  \/ ScanCategory(Lines, MaxLines)
  \/ ScanCategoryDescription(Lines, MaxLines)
  \/ ScanSkip(Lines, MaxLines)
  \/ ScanMalformed(Lines, MaxLines)
  \/ ScanCodePoint(Lines, MaxLines)
  \/ ScanContinuation(Lines, MaxLines)
  \/ ScanDeepCodePoint
  \/ ScanDeepContinuation
  \/ ScanEnd
  \/ RunFinish
  \/ MainExit

Spec == Init /\ [][Next]_vars


(***************************************************************************)
(* fetchUnicodeURL, step by step, on a file system and a network that can  *)
(* fail at every call.  A file is a sequence of bytes; a byte is 1 or 2,   *)
(* and 0 where a write beyond the end left a hole.                         *)
(***************************************************************************)
\* the longest body the server sends
MaxBody == 2

Bytes == {1, 2}

\* the bodies and file contents of at most n bytes
BodiesUpTo(n) == UNION {[1..k -> Bytes] : k \in 0..n}

\* the file after writing byte b at offset off
WriteAt(data, off, b) ==
  IF off < Len(data) THEN [data EXCEPT ![off + 1] = b]
  ELSE data \o [i \in 1..(off - Len(data)) |-> 0] \o <<b>>

\* what a reader of the stream call p returned would read
StreamOf(p) == SubSeq(cacheFile.data, foff[p] + 1, Len(cacheFile.data))

\* no other call is under way
Alone(p) == \A q \in Procs \ {p} : fpc[q] \in {"idle", "done"}

\* call p returns the error e
FetchReturnErr(p, e) ==
  /\ fpc' = [fpc EXCEPT ![p] = "done"]
  /\ ferr' = [ferr EXCEPT ![p] = e]

InitFetch ==
  /\ InitRun({<<ProgName>>})
  /\ netBody \in BodiesUpTo(MaxBody)
  /\ \/ /\ cacheFile = [exists |-> FALSE, data |-> <<>>]
        /\ cacheDir \in BOOLEAN
     \/ /\ cacheFile \in {[exists |-> TRUE, data |-> d] : d \in BodiesUpTo(MaxBody)}
        /\ cacheDir = TRUE
  /\ fpc = [p \in Procs |-> "idle"]
  /\ fbody = [p \in Procs |-> <<>>]
  /\ foff = [p \in Procs |-> 0]
  /\ ferr = [p \in Procs |-> ""]
  /\ fmiss = [p \in Procs |-> FALSE]
  /\ fnet = [p \in Procs |-> 0]

\* lines 191-197: the call begins; os.UserCacheDir fails or gives the
\* directory
FetchEnter(p) ==
  /\ fpc[p] = "idle"
  /\ \/ FetchReturnErr(p, "could not find user cache dir")
     \/ /\ fpc' = [fpc EXCEPT ![p] = "open"]
        /\ ferr' = ferr
  /\ UNCHANGED <<netBody, cacheDir, cacheFile, fbody, foff, fmiss, fnet>>
  /\ UNCHANGED rvars

\* lines 191-197: the call begins after every earlier call has returned
FetchBegin(p) == Alone(p) /\ FetchEnter(p)

\* lines 198-204: os.Open of the cache path: the file, returned at offset 0,
\* or no such file, or another error
FetchOpen(p) ==
  /\ fpc[p] = "open"
  /\ \/ /\ cacheFile.exists
        /\ fpc' = [fpc EXCEPT ![p] = "done"]
        /\ foff' = [foff EXCEPT ![p] = 0]
        /\ UNCHANGED <<ferr, fmiss>>
     \/ /\ ~cacheFile.exists
        /\ fpc' = [fpc EXCEPT ![p] = "mkdir"]
        /\ fmiss' = [fmiss EXCEPT ![p] = TRUE]
        /\ UNCHANGED <<ferr, foff>>
     \/ /\ FetchReturnErr(p, "could not open file")
        /\ UNCHANGED <<foff, fmiss>>
  /\ UNCHANGED <<netBody, cacheDir, cacheFile, fbody, fnet>>
  /\ UNCHANGED rvars

\* lines 205-207: os.MkdirAll of the cache directory
FetchMkdirAll(p) ==
  /\ fpc[p] = "mkdir"
  /\ \/ /\ cacheDir' = TRUE
        /\ fpc' = [fpc EXCEPT ![p] = "get"]
        /\ ferr' = ferr
     \/ /\ ~cacheDir
        /\ FetchReturnErr(p, "could not make cache path")
        /\ cacheDir' = cacheDir
  /\ UNCHANGED <<netBody, cacheFile, fbody, foff, fmiss, fnet>>
  /\ UNCHANGED rvars

\* lines 208-212: http.Get of the URL
FetchGet(p) ==
  /\ fpc[p] = "get"
  /\ fnet' = [fnet EXCEPT ![p] = @ + 1]
  /\ \/ /\ fbody' = [fbody EXCEPT ![p] = netBody]
        /\ fpc' = [fpc EXCEPT ![p] = "create"]
        /\ ferr' = ferr
     \/ /\ FetchReturnErr(p, "could not fetch")
        /\ fbody' = fbody
  /\ UNCHANGED <<netBody, cacheDir, cacheFile, foff, fmiss>>
  /\ UNCHANGED rvars

\* lines 213-216: os.Create of the cache path: the file is created, or
\* truncated if it exists
FetchCreate(p) ==
  /\ fpc[p] = "create"
  /\ \/ /\ cacheFile' = [exists |-> TRUE, data |-> <<>>]
        /\ foff' = [foff EXCEPT ![p] = 0]
        /\ fpc' = [fpc EXCEPT ![p] = "copy"]
        /\ ferr' = ferr
     \/ /\ FetchReturnErr(p, "could not create cache path")
        /\ UNCHANGED <<cacheFile, foff>>
  /\ UNCHANGED <<netBody, cacheDir, fbody, fmiss, fnet>>
  /\ UNCHANGED rvars

\* line 217, io.Copy: the next byte of the body is written at the handle's
\* offset
FetchCopy(p) ==
  /\ fpc[p] = "copy"
  /\ fbody[p] # <<>>
  /\ cacheFile' = [cacheFile EXCEPT !.data = WriteAt(@, foff[p], Head(fbody[p]))]
  /\ foff' = [foff EXCEPT ![p] = @ + 1]
  /\ fbody' = [fbody EXCEPT ![p] = Tail(@)]
  /\ UNCHANGED <<netBody, cacheDir, fpc, ferr, fmiss, fnet>>
  /\ UNCHANGED rvars

\* a variant of FetchCopyFails that removes the incomplete file
FetchCopyFailsCleans(p) ==
  /\ fpc[p] = "copy"
  /\ FetchReturnErr(p, "could not download")
  /\ cacheFile' = [exists |-> FALSE, data |-> <<>>]
  /\ UNCHANGED <<netBody, cacheDir, fbody, foff, fmiss, fnet>>
  /\ UNCHANGED rvars

\* lines 217-219, io.Copy: reading the body or writing the file fails
FetchCopyFails(p) ==
  /\ fpc[p] = "copy"
  /\ FetchReturnErr(p, "could not download")
  /\ UNCHANGED <<netBody, cacheDir, cacheFile, fbody, foff, fmiss, fnet>>
  /\ UNCHANGED rvars

\* a variant of FetchRewind that returns the handle where io.Copy left it
FetchNoRewind(p) ==
  /\ fpc[p] = "copy"
  /\ fbody[p] = <<>>
  /\ fpc' = [fpc EXCEPT ![p] = "done"]
  /\ UNCHANGED <<netBody, cacheDir, cacheFile, fbody, foff, ferr, fmiss, fnet>>
  /\ UNCHANGED rvars

\* lines 217 and 220-221: the body is exhausted; f.Seek(0, 0) and return f
FetchRewind(p) ==
  /\ fpc[p] = "copy"
  /\ fbody[p] = <<>>
  /\ foff' = [foff EXCEPT ![p] = 0]
  /\ fpc' = [fpc EXCEPT ![p] = "done"]
  /\ UNCHANGED <<netBody, cacheDir, cacheFile, fbody, ferr, fmiss, fnet>>
  /\ UNCHANGED rvars

NextFetch ==
  \E p \in Procs :
    \/ FetchBegin(p)
    \/ FetchOpen(p)
    \/ FetchMkdirAll(p)
    \/ FetchGet(p)
    \/ FetchCreate(p)
    \/ FetchCopy(p)
    \/ FetchCopyFails(p)
    \/ FetchRewind(p)

\* calls of fetchUnicodeURL one after the other
SpecFetch == InitFetch /\ [][NextFetch]_vars

\* no cache file yet
InitFetchNoCache == InitFetch /\ ~cacheFile.exists

NextFetchConcurrent ==
  \E p \in Procs :
    \/ FetchEnter(p)
    \/ FetchOpen(p)
    \/ FetchMkdirAll(p)
    \/ FetchGet(p)
    \/ FetchCreate(p)
    \/ FetchCopy(p)
    \/ FetchCopyFails(p)
    \/ FetchRewind(p)

\* calls of fetchUnicodeURL in two processes at once, their system calls
\* interleaved
SpecFetchConcurrent == InitFetchNoCache /\ [][NextFetchConcurrent]_vars

(***************************************************************************)
(* The document as the specification reads it: records, their description  *)
(* blocks, the query's terms.                                              *)
(***************************************************************************)
\* a line the loop takes for data: no @, no semicolon, no two tabs in front
DataLine(line) ==
  /\ ~HasPrefix(line, <<"@">>)
  /\ ~HasPrefix(line, <<";">>)
  /\ ~HasPrefix(line, <<TAB, TAB>>)

\* line i of doc is a two-field data line with a code point: it declares a
\* record
RecordLine(doc, i) ==
  /\ DataLine(doc[i])
  /\ LET parts == Split(doc[i], TAB) IN Len(parts) = 2 /\ parts[1] # <<>>

\* line i of doc is a two-field data line with an empty code-point field
ContLine(doc, i) ==
  /\ DataLine(doc[i])
  /\ LET parts == Split(doc[i], TAB) IN Len(parts) = 2 /\ parts[1] = <<>>

\* a data line that is not exactly two tab-separated fields
MalformedLine(doc, i) ==
  /\ DataLine(doc[i])
  /\ Len(Split(doc[i], TAB)) # 2

\* the first record line of doc at or after line j, or the line after the
\* last
RECURSIVE RecordFrom(_, _)
RecordFrom(doc, j) ==
  IF j > Len(doc) THEN Len(doc) + 1
  ELSE IF RecordLine(doc, j) THEN j
  ELSE RecordFrom(doc, j + 1)

\* the line after the last line of the record declared at line i
RecordEnd(doc, i) == RecordFrom(doc, i + 1)

\* the lower-cased text fields of the lines from..to - 1 of doc that are
\* line `first` or continuation lines, in document order
RECURSIVE BlockFrom(_, _, _, _)
BlockFrom(doc, first, from, to) ==
  IF from >= to THEN <<>>
  ELSE (IF from = first \/ ContLine(doc, from)
          THEN <<ToLower(Split(doc[from], TAB)[2])>>
          ELSE <<>>) \o BlockFrom(doc, first, from + 1, to)

\* the description block of the record declared at line i
Block(doc, i) == BlockFrom(doc, i, i, RecordEnd(doc, i))

\* the code-point text of the record declared at line i
CodeText(doc, i) == Split(doc[i], TAB)[1]

\* the query as given on the command line
Query == Join(Tail(NonFlagArgs(osArgs)), <<" ">>)

\* the terms of the query
Terms == Fields(ToLower(Query))

\* every term is a substring of at least one of the texts
AllTermsIn(texts) ==
  LET terms == Terms
  IN  \A p \in 1..Len(terms) : \E t \in 1..Len(texts) : Contains(texts[t], terms[p])

HexChars == {"0","1","2","3","4","5","6","7","8","9",
             "a","b","c","d","e","f","A","B","C","D","E","F"}

\* s is the hexadecimal text of a code point (at most 10FFFF)
ValidCodePoint(s) ==
  /\ s # <<>>
  /\ \A i \in 1..Len(s) : s[i] \in HexChars
  /\ HexValue(s, 0) \in 0..1114111

Range(seq) == {seq[i] : i \in 1..Len(seq)}

\* the calls of matcher that evaluated a record (a code-point line was read)
RecordEvals == {k \in 1..Len(evals) : evals[k].line > 0}

\* searchNamesList got its stream
Searching == pc \in {"scan", "searchReturned", "runReturned", "exit"} /\ err \notin FetchErrors /\ Len(NonFlagArgs(osArgs)) >= 2

(***************************************************************************)
(* C1: a record is evaluated only once all its continuation lines have     *)
(* been read, that is while reading the next code-point line or at the end *)
(* of input, on its whole description block; and no record is evaluated or *)
(* appended to the result twice.                                           *)
(***************************************************************************)
C1_EvaluatedOnceWhenComplete ==
  /\ \A k \in RecordEvals :
       /\ evals[k].at = RecordEnd(input, evals[k].line)
       /\ evals[k].at <= Len(input) \/ eof
       /\ evals[k].items = Block(input, evals[k].line)
  /\ \A k1, k2 \in RecordEvals : evals[k1].line = evals[k2].line => k1 = k2
  /\ \A i, j \in 1..Len(cpLine) : cpLine[i] = cpLine[j] => i = j
  /\ \A i \in 1..Len(cpLine) : \E k \in RecordEvals : evals[k].line = cpLine[i]

\* a record with more continuation lines than the first backing array holds
\* was evaluated and appended, then another
C1_Witness ==
  /\ Len(cp) >= 2
  /\ \E k \in RecordEvals :
       /\ Len(evals[k].items) > DescCap
       /\ evals[k].line \in Range(cpLine)


(***************************************************************************)
(* C2: with a non-empty query, a record with a valid hexadecimal code      *)
(* point is in the result iff every term is in some line of the            *)
(* description list it was evaluated on, or every term is in its           *)
(* lower-cased Category name or Subcategory; terms found only by mixing    *)
(* the two are not enough.                                                 *)
(***************************************************************************)
\* the texts of the category fallback of an evaluated record
FallbackTexts(e) == <<ToLower(e.ccat.Name), ToLower(e.cscat)>>

C2_AcceptedIffAllTerms ==
  Query # <<>> =>
    \A k \in RecordEvals :
      ValidCodePoint(evals[k].schr) =>
        ((evals[k].line \in Range(cpLine))
           <=> (\/ AllTermsIn(evals[k].items)
                \/ AllTermsIn(FallbackTexts(evals[k]))))

\* two terms; one record is accepted through category and subcategory only,
\* another is rejected although description and subcategory together hold
\* both terms
C2_Witness ==
  /\ Len(Terms) = 2
  /\ \E k \in RecordEvals :
       /\ ValidCodePoint(evals[k].schr)
       /\ evals[k].line \in Range(cpLine)
       /\ ~AllTermsIn(evals[k].items)
  /\ \E k \in RecordEvals :
       /\ ValidCodePoint(evals[k].schr)
       /\ evals[k].line \notin Range(cpLine)
       /\ AllTermsIn(evals[k].items \o FallbackTexts(evals[k]))

(***************************************************************************)
(* C3: some category of the documents is excluded: no record of it is ever *)
(* in the result.  (Whatever the exclusion set holds, it names some        *)
(* category; the program has no such set.)                                 *)
(***************************************************************************)
\* the names of the categories the documents of Spec can declare
CategoryNames ==
  {Split(l, TAB)[3] : l \in {x \in Lines : /\ LineClass(x) = "category"
                                            /\ Len(Split(x, TAB)) >= 4}}

C3_SomeCategoryExcluded ==
  \E n \in CategoryNames : \A i \in 1..Len(cp) : cp[i].Category.Name # n

(***************************************************************************)
(* C4: once searchNamesList has returned, the FullDesc of every returned   *)
(* record is that record's own description block, and its Desc is the      *)
(* first element of FullDesc.                                              *)
(***************************************************************************)
C4_FullDescIsOwnBlock ==
  pc = "searchReturned" =>
    \A i \in 1..Len(cp) :
      /\ Items(heap, cp[i].FullDesc) = Block(input, cpLine[i])
      /\ cp[i].Desc = Items(heap, cp[i].FullDesc)[1]

(***************************************************************************)
(* C5: with the empty query, searchNamesList returns every record of the   *)
(* document whose code point parses as hexadecimal, each exactly once.     *)
(***************************************************************************)
C5_EmptyQueryReturnsAll ==
  (pc = "searchReturned" /\ err = "" /\ Query = <<>>) =>
    \A i \in 1..Len(input) :
      (RecordLine(input, i) /\ ValidCodePoint(CodeText(input, i))) =>
        Cardinality({k \in 1..Len(cpLine) : cpLine[k] = i}) = 1

\* the empty query, a document of two valid records in a category and one
\* record whose code point does not parse
C5_Witness ==
  /\ pc = "searchReturned" /\ err = "" /\ Query = <<>>
  /\ Len(cp) = 2
  /\ \E i \in 1..Len(input) :
       RecordLine(input, i) /\ ~ValidCodePoint(CodeText(input, i))
  /\ \E i \in 1..Len(cp) : cp[i].Category.Name # <<>>


(***************************************************************************)
(* C6: a data line that is not exactly two tab-separated fields is         *)
(* reported and skipped and does not end the parse (it neither returns nor *)
(* panics): when the end of input is reached, every record after it has    *)
(* been evaluated and, if it matches the query (and its code point is      *)
(* valid), returned.                                                       *)
(***************************************************************************)
IsFormatEntry(e) == e.kind = "invalid format"

IsMalformedText(l) == MalformedLine(<<l>>, 1)

\* the evaluated record e passes the match test of the specification
Matches(e) == AllTermsIn(e.items) \/ AllTermsIn(FallbackTexts(e))

C6_MalformedSkipped ==
  /\ pc = "panic" => (input # <<>> /\ ~MalformedLine(input, Len(input)))
  /\ Searching =>
       /\ [i \in 1..Len(SelectSeq(stderr, IsFormatEntry)) |->
             SelectSeq(stderr, IsFormatEntry)[i].text]
            = SelectSeq(input, IsMalformedText)
       /\ pc # "scan" => eof
       /\ eof =>
            \A j \in 1..Len(input) : \A i \in (j + 1)..Len(input) :
              (MalformedLine(input, j) /\ RecordLine(input, i)) =>
                \E k \in RecordEvals :
                  /\ evals[k].line = i
                  /\ (ValidCodePoint(evals[k].schr) /\ Matches(evals[k]))
                       => i \in Range(cpLine)

\* a record that follows a malformed line was returned
C6_Witness ==
  /\ eof
  /\ \E j \in 1..Len(input) : \E i \in (j + 1)..Len(input) :
       /\ MalformedLine(input, j)
       /\ RecordLine(input, i)
       /\ i \in Range(cpLine)

(***************************************************************************)
(* C7: the result list is in input order: each element is the record of    *)
(* one code-point line, and the elements' code-point lines are in document *)
(* order.                                                                  *)
(***************************************************************************)
C7_InputOrder ==
  /\ Len(cpLine) = Len(cp)
  /\ \A i \in 1..Len(cp) :
       /\ cpLine[i] \in 1..Len(input)
       /\ RecordLine(input, cpLine[i])
       /\ cp[i].Chr = HexValue(CodeText(input, cpLine[i]), 0)
       /\ cp[i].Desc = ToLower(Split(input[cpLine[i]], TAB)[2])
  /\ \A i, j \in 1..Len(cp) : i < j => cpLine[i] < cpLine[j]

\* two different records were returned
C7_Witness ==
  /\ Len(cp) >= 2
  /\ cp[1].Chr # cp[2].Chr

(***************************************************************************)
(* C9 as claimed: a finalized record whose code point does not parse is    *)
(* never added to the result, and an error naming its text is logged for   *)
(* it.                                                                     *)
(***************************************************************************)
\* the invalid-rune reports that name the text s
RuneReports(s) ==
  {n \in 1..Len(stderr) : stderr[n].kind = "invalid rune" /\ stderr[n].text = s}

\* the evaluated records whose code-point text is s
EvalsOf(s) == {k \in RecordEvals : evals[k].schr = s}

C9_InvalidAlwaysLogged ==
  \A k \in RecordEvals :
    ParseInt16(evals[k].schr).err =>
      /\ evals[k].line \notin Range(cpLine)
      /\ Cardinality(RuneReports(evals[k].schr))
           = Cardinality(EvalsOf(evals[k].schr))

(***************************************************************************)
(* C9 as amended: a finalized record whose code point does not parse is    *)
(* never added to the result; an error naming its text is logged for it    *)
(* exactly when it passes the match test; its evaluation does not end the  *)
(* parse (no evaluation panics or returns before the end of input), and    *)
(* when the end of input is reached every record has been evaluated.       *)
(***************************************************************************)
C9_InvalidDroppedLoggedIfMatched ==
  /\ pc = "panic" => (input # <<>> /\ ~RecordLine(input, Len(input)) /\ ~eof)
  /\ \A k \in RecordEvals :
       ParseInt16(evals[k].schr).err =>
         /\ evals[k].line \notin Range(cpLine)
         /\ Cardinality(RuneReports(evals[k].schr))
              = Cardinality({j \in EvalsOf(evals[k].schr) : Matches(evals[j])})
  /\ Searching =>
       /\ pc # "scan" => eof
       /\ eof => \A i \in 1..Len(input) :
                   RecordLine(input, i) => \E k \in RecordEvals : evals[k].line = i

\* one record with a bad code point matched and was reported, another did
\* not match and was not, and a record after them was returned
C9_Witness ==
  /\ eof
  /\ \E k \in RecordEvals :
       /\ ParseInt16(evals[k].schr).err
       /\ Matches(evals[k])
       /\ \E j \in RecordEvals : j > k /\ evals[j].line \in Range(cpLine)
  /\ \E k \in RecordEvals : ParseInt16(evals[k].schr).err /\ ~Matches(evals[k])

(***************************************************************************)
(* C10: when fetchUnicodeURL fails, searchNamesList returns its error with *)
(* no record and without reading a line, run returns the same error, and   *)
(* the process reports it and exits with status 1.                         *)
(***************************************************************************)
C10_FetchErrorPropagates ==
  err \in FetchErrors =>
    /\ pc \in {"searchReturned", "runReturned", "exit"}
    /\ cp = <<>> /\ input = <<>> /\ evals = <<>> /\ ~eof
    /\ desc = NilSlice /\ heap = <<>>
    /\ IF pc = "exit"
         THEN exitCode = 1 /\ stderr = <<LogEntry("error", <<err>>, 0)>>
         ELSE exitCode = -1 /\ stderr = <<>>

\* the process has exited on a failed download
C10_Witness ==
  /\ pc = "exit"
  /\ err = "could not fetch"
  /\ exitCode = 1


(***************************************************************************)
(* C8: of two successive calls of fetchUnicodeURL, the first finding no    *)
(* cache file: the first makes one network request, leaves at the cache    *)
(* path exactly the bytes of the body and returns a stream over them from  *)
(* the start; the second returns the same bytes and makes no request.      *)
(***************************************************************************)
\* call p has returned a stream
Fetched(p) == fpc[p] = "done" /\ ferr[p] = ""

C8_SecondFetchFromCache ==
  /\ \A p \in Procs :
       (Fetched(p) /\ fmiss[p]) =>
         /\ fnet[p] = 1
         /\ cacheFile.exists
         /\ cacheFile.data = netBody
         /\ StreamOf(p) = netBody
  /\ \A p, q \in Procs :
       (Fetched(p) /\ fmiss[p] /\ Fetched(q) /\ ~fmiss[q]) =>
         /\ fnet[q] = 0
         /\ StreamOf(q) = netBody

\* both calls have returned a stream on a body of two bytes, the first after
\* a download, the second from the cache
C8_Witness ==
  /\ Len(netBody) = 2
  /\ \E p, q \in Procs :
       Fetched(p) /\ fmiss[p] /\ Fetched(q) /\ ~fmiss[q] /\ fnet[p] = 1

(***************************************************************************)
(* C11: the process exits with a non-zero status and an error message      *)
(* exactly when the result is empty, or fetchUnicodeURL failed, or no      *)
(* argument is left once the flags are stripped; every other run exits     *)
(* with status 0.                                                          *)
(***************************************************************************)
\* the process has ended
Exited == exitCode # -1

\* no argument is left for the query once the flags are stripped
NoQueryTerm == Len(NonFlagArgs(osArgs)) < 2

\* one of the three failures of the run
RunFailure == NoQueryTerm \/ err \in FetchErrors \/ cp = <<>>

C11_NonZeroExactlyOnFailure ==
  Exited =>
    /\ (exitCode # 0) <=> RunFailure
    /\ exitCode # 0 => stderr # <<>>

(***************************************************************************)
(* C12: two calls of fetchUnicodeURL run at once with no cache file and no  *)
(* call fails: every call that returns a stream returns one over the       *)
(* complete document, and no call returns a cache file that the other has  *)
(* created and not yet written to its end.                                 *)
(***************************************************************************)
\* call q has created the cache file and has not written all of the body
Writing(q) == fpc[q] = "copy" /\ fbody[q] # <<>>

\* no call has returned an error
NoFetchError == \A q \in Procs : ferr[q] = ""

C12_ConcurrentFetchComplete ==
  NoFetchError =>
    \A p \in Procs :
      Fetched(p) =>
        /\ StreamOf(p) = netBody
        /\ ~fmiss[p] => \A q \in Procs \ {p} : ~Writing(q)

(***************************************************************************)
(* C13: the matcher runs only on an open record: every evaluation (match   *)
(* test, code-point parsing, error report) is of a record whose code-point *)
(* line was read, so neither the first code-point line nor the end of an   *)
(* input without records evaluates anything, whatever the query.           *)
(***************************************************************************)
\* the calls of matcher made while no record was open
EvalsWithoutRecord == {k \in 1..Len(evals) : evals[k].line = 0}

C13_EvaluationOnlyWhenOpen ==
  /\ EvalsWithoutRecord = {}
  /\ RuneReports(<<>>) = {}

(***************************************************************************)
(* C14: when the input ends after a record was declared, that last record  *)
(* is evaluated exactly once, after the last line, on its whole            *)
(* description block, whatever the last line is; if it passes the match    *)
(* test (and its code point parses) it is the last element of the result.  *)
(***************************************************************************)
\* the line of the last record declared in doc, 0 if there is none
RECURSIVE LastRecord(_, _)
LastRecord(doc, i) ==
  IF i = 0 THEN 0
  ELSE IF RecordLine(doc, i) THEN i
  ELSE LastRecord(doc, i - 1)

C14_FinalRecordEvaluated ==
  LET last == LastRecord(input, Len(input))
      K    == {k \in RecordEvals : evals[k].line = last}
  IN  (eof /\ last > 0) =>
        /\ Cardinality(K) = 1
        /\ \A k \in K :
             /\ k = Len(evals)
             /\ evals[k].at = Len(input) + 1
             /\ evals[k].items = Block(input, last)
             /\ (ValidCodePoint(evals[k].schr) /\ Matches(evals[k])) =>
                  /\ cpLine # <<>>
                  /\ cpLine[Len(cpLine)] = last
                  /\ cp[Len(cp)].Chr = HexValue(CodeText(input, last), 0)

\* the input ended on a continuation line of the second record returned
C14_Witness ==
  /\ eof
  /\ Len(cp) >= 2
  /\ ContLine(input, Len(input))
  /\ cpLine[Len(cpLine)] = LastRecord(input, Len(input))
  /\ Len(Block(input, cpLine[Len(cpLine)])) >= 2

(***************************************************************************)
(* C15: a record carries the text of the last subcategory marker before    *)
(* its code-point line, unless a category header came after that marker:   *)
(* then, and when there was no marker, its Subcategory is empty.  This is  *)
(* the Subcategory it is evaluated with and returned with.                 *)
(***************************************************************************)
\* the subcategory in effect after the first i lines of doc, a category
\* header ending the subcategory before it
RECURSIVE SubcategoryAfter(_, _)
SubcategoryAfter(doc, i) ==
  IF i = 0 THEN <<>>
  ELSE IF LineClass(doc[i]) = "subcategory" THEN SliceFrom(doc[i], 3)
  ELSE IF LineClass(doc[i]) = "category" THEN <<>>
  ELSE SubcategoryAfter(doc, i - 1)

C15_SubcategoryEndsAtCategory ==
  /\ \A k \in RecordEvals :
       evals[k].cscat = SubcategoryAfter(input, evals[k].line)
  /\ \A i \in 1..Len(cp) :
       cp[i].Subcategory = SubcategoryAfter(input, cpLine[i])

(***************************************************************************)
(* C16: a record is evaluated and returned with the Category and the       *)
(* Subcategory the parser held when its code-point line was read: category *)
(* headers, category description lines and subcategory markers read after  *)
(* that line change neither what is stored in the record nor the texts of  *)
(* its fallback match.                                                     *)
(***************************************************************************)
\* the parser's category after the first n lines of doc (lines 313-321)
RECURSIVE CategoryAt(_, _)
CategoryAt(doc, n) ==
  IF n = 0 THEN ZeroCategory
  ELSE IF HasPrefix(doc[n], <<"@", "+", TAB, TAB>>)
    THEN [CategoryAt(doc, n - 1) EXCEPT !.Description = SliceFrom(doc[n], 4)]
  ELSE IF HasPrefix(doc[n], <<"@", "@", TAB>>)
    THEN LET parts == Split(doc[n], TAB)
         IN  IF Len(parts) >= 4
               THEN [Name |-> parts[3], Start |-> parts[2], End |-> parts[4],
                     Description |-> <<>>]
               ELSE CategoryAt(doc, n - 1)
  ELSE CategoryAt(doc, n - 1)

\* the parser's subcategory after the first n lines of doc (lines 309-312)
RECURSIVE SubcategoryAt(_, _)
SubcategoryAt(doc, n) ==
  IF n = 0 THEN <<>>
  ELSE IF HasPrefix(doc[n], <<"@", TAB, TAB>>) THEN SliceFrom(doc[n], 3)
  ELSE SubcategoryAt(doc, n - 1)

C16_ContextOfCodePointLine ==
  /\ \A k \in RecordEvals :
       LET cat == CategoryAt(input, evals[k].line - 1)
           sub == SubcategoryAt(input, evals[k].line - 1)
       IN  /\ evals[k].ccat = cat
           /\ evals[k].cscat = sub
           /\ ValidCodePoint(evals[k].schr) =>
                ((evals[k].line \in Range(cpLine))
                   <=> (\/ AllTermsIn(evals[k].items)
                        \/ AllTermsIn(<<ToLower(cat.Name), ToLower(sub)>>)))
  /\ \A i \in 1..Len(cp) :
       \E k \in RecordEvals :
         /\ evals[k].line = cpLine[i]
         /\ cp[i].Category = evals[k].ccat
         /\ cp[i].Subcategory = evals[k].cscat

\* a category header, its description and a subcategory marker followed the
\* code-point line of a record; at the end of input the record was rejected
\* although the category and subcategory then current hold the query's terms
C16_Witness ==
  /\ eof
  /\ Len(input) = 4
  /\ RecordLine(input, 1)
  /\ LineClass(input[2]) = "category"
  /\ LineClass(input[3]) = "categoryDescription"
  /\ LineClass(input[4]) = "subcategory"
  /\ \E k \in RecordEvals :
       /\ evals[k].line = 1
       /\ ValidCodePoint(evals[k].schr)
       /\ 1 \notin Range(cpLine)
  /\ Terms # <<>>
  /\ AllTermsIn(<<ToLower(category.Name), ToLower(subcategory)>>)

(***************************************************************************)
(* C17: of successive calls of fetchUnicodeURL, when one fails in io.Copy  *)
(* after creating the cache file, it returns an error and the file stays   *)
(* with the bytes written so far; the following call takes the cache path  *)
(* (it never goes on to the download), makes no network request and, when  *)
(* it returns a stream, returns those bytes.                               *)
(***************************************************************************)
\* call p failed while copying the body to the cache file
CopyFailed(p) == fpc[p] = "done" /\ ferr[p] = "could not download"

C17_PartialFileTakenAsValid ==
  \A p \in Procs :
    CopyFailed(p) =>
      /\ fmiss[p] /\ fnet[p] = 1
      /\ cacheFile.exists
      /\ cacheFile.data = SubSeq(netBody, 1, foff[p])
      /\ \A q \in Procs \ {p} :
           /\ fpc[q] \in {"idle", "open", "done"}
           /\ Fetched(q) =>
                /\ ~fmiss[q]
                /\ fnet[q] = 0
                /\ StreamOf(q) = SubSeq(netBody, 1, foff[p])

\* a call failed after one byte of two, and the next call returned a stream
\* over that byte
C17_Witness ==
  \E p, q \in Procs :
    /\ CopyFailed(p)
    /\ Len(netBody) = 2
    /\ foff[p] = 1
    /\ Fetched(q)
    /\ StreamOf(q) = <<netBody[1]>>

(***************************************************************************)
(* C18: searchNamesList never panics: whatever the lines, it reads them    *)
(* all and returns only at the end of input; a category header of fewer    *)
(* than four tab-separated fields leaves the parse running, and at the end *)
(* of input the records after it have been evaluated.                      *)
(***************************************************************************)
\* line i of doc is a category header of fewer than four fields
ShortHeader(doc, i) ==
  LineClass(doc[i]) = "category" /\ Len(Split(doc[i], TAB)) < 4

C18_NoPanicOnAnyLine ==
  /\ pc # "panic"
  /\ Searching =>
       /\ pc # "scan" => eof
       /\ \A j \in 1..Len(input) :
            ShortHeader(input, j) =>
              /\ pc = "scan" \/ eof
              /\ eof => \A i \in (j + 1)..Len(input) :
                          RecordLine(input, i) =>
                            \E k \in RecordEvals : evals[k].line = i

(***************************************************************************)
(* C19: every call of matcher that passes the match test on a code-point   *)
(* text that parses is made on a description list of at least one line,    *)
(* so desc[0] is never read from an empty list and matcher never panics;   *)
(* this covers the calls made with no record open (at the first code-point *)
(* line, after leading continuation lines, at the end of an empty input)   *)
(* and the empty query.                                                    *)
(***************************************************************************)
\* the call e of matcher reached the append of line 295
ReachedAppend(e) == ~ParseInt16(e.schr).err /\ Matches(e)

C19_AppendHasFirstLine ==
  /\ \A k \in 1..Len(evals) :
       Len(evals[k].items) = 0 => ~ReachedAppend(evals[k])
  /\ \A i \in 1..Len(cp) : cp[i].FullDesc.len >= 1
  /\ pc = "panic" => (input # <<>> /\ ShortHeader(input, Len(input)))

\* with the empty query, matcher was called with no record open on a list
\* of leading continuation lines, and a record was appended later
C19_Witness ==
  /\ Query = <<>>
  /\ \E k \in EvalsWithoutRecord : Len(evals[k].items) >= 1
  /\ Len(cp) >= 1

(***************************************************************************)
(* C20: reading a malformed data line (not exactly two tab-separated       *)
(* fields), whatever its first field, changes nothing of the parser's      *)
(* state: no record is finalized or opened and the description list is     *)
(* untouched; so a record open before the line is evaluated later on a     *)
(* description list that holds the continuation lines after the malformed  *)
(* line as well.                                                           *)
(***************************************************************************)
\* this step reads a malformed data line
ReadsMalformed ==
  /\ Len(input') = Len(input) + 1
  /\ MalformedLine(input', Len(input'))

\* the malformed lines between a record's code-point line and its evaluation
\* neither ended it nor opened another
MalformedInsideRecord ==
  \A k \in RecordEvals :
    \A j \in (evals[k].line + 1)..(evals[k].at - 1) :
      MalformedLine(input, j) =>
        /\ evals[k].items = Block(input, evals[k].line)
        /\ \A i \in (j + 1)..(evals[k].at - 1) :
             ContLine(input, i) =>
               \E n \in 2..Len(evals[k].items) :
                 evals[k].items[n] = ToLower(Split(input[i], TAB)[2])
        /\ \A m \in 1..Len(evals) : evals[m].at # j /\ evals[m].line # j

C20_MalformedChangesNoState ==
  /\ [][ReadsMalformed =>
          UNCHANGED <<pc, search, schr, ccat, cscat, category, subcategory,
                      desc, heap, cp, cpLine, cline, evals, eof, err>>]_vars
  /\ []MalformedInsideRecord

\* a record was returned whose description list holds a continuation line
\* read after a malformed line that begins with a code point
C20_Witness ==
  \E k \in RecordEvals :
    /\ evals[k].line \in Range(cpLine)
    /\ \E j \in (evals[k].line + 1)..(evals[k].at - 1) :
         /\ MalformedLine(input, j)
         /\ Split(input[j], TAB)[1] # <<>>
         /\ \E i \in (j + 1)..(evals[k].at - 1) : ContLine(input, i)
         /\ Len(evals[k].items) >= 2

====
